---- MODULE Spec2Model ----
(***************************************************************************)
(* AlphaZero_Gobang: the tournament judge (ModelContest.py, contest) and   *)
(* the training pipeline (Train.py, TrainPipeline).                        *)
(*                                                                         *)
(* Win ratios are kept exact: a ratio (wins + 0.5 * draws) / n is held as  *)
(* the integer 2*wins + draws, i.e. the ratio times 2n.                    *)
(***************************************************************************)
EXTENDS Integers, Sequences, FiniteSets, TLC

(* ----------------------------- bounds --------------------------------- *)
\* directory entries listed by os.listdir in the model
MaxFiles == 3
\* games per pairing in the model (the n_games argument of contest)
NGames == 2
\* the round counter of contest is only logged; the model saturates it here
MaxRound == 3

(* ------------------------------ state --------------------------------- *)
VARIABLES
  \* ---- contest(directory_name, n_games) of ModelContest.py
  files,               \* os.listdir(directory_name): a sequence of file kinds
  cpc,                 \* position in contest()
  cur_players,         \* list of players (a player is the index of its file)
  next_round_players,
  player1,             \* None or a player; a local that outlives the for loop
  pos,                 \* number of cur_players the for loop has consumed
  round,
  round_log,           \* the logger.info lines of the current round
  game_played,         \* whether game.start_game has been called
  returned,            \* the file returned by contest(), None before
  \* ---- TrainPipeline of Train.py: run() and its locals
  tpc,                 \* position in run()
  i,                   \* the loop variable of run()
  win_ratio,           \* the local win_ratio of run(), scaled by 2*EvalGames
  net,                 \* policy_value_net: the parameter set it holds
  episode_len,         \* self.episode_len
  \* ---- self.config, the pickled aggregate
  data_buffer,
  episode_records,
  loss_records,        \* the combined_loss of each loss record
  start_game_num,
  evaluate_opponent,
  pure_mcts_playout_num,
  best_win_pure_so_far,          \* scaled by 2*EvalGames
  continuous_win_pure_times,
  policy_param,
  cur_best_alphazero_store_filename,
  lr_multiplier,       \* as the exponent e of 1.5^e
  learn_rate,          \* as the number of divisions by 10 applied to it
  kl_targ,             \* as the number of divisions by 10 applied to it
  min_mean_loss_every_check_freq,
  increase_mean_loss_times,
  \* ---- the world around the pipeline
  ckpt_files,          \* the checkpoints on disk: file name -> pickled config
  save_out,            \* the last save_model call: its arguments and outcome
  \* ---- history
  appended,            \* number of steps ever appended to data_buffer
  seen_best,           \* highest win ratio evaluated so far at this strength
  start0,              \* config.start_game_num when run() was entered
  processed,           \* the iteration indices run() has begun, in order
  \* ---- optimize(iteration) and adjust_learning_rate
  mini_batch,          \* the local mini_batch: the sampled buffer positions
  adjust_out,          \* the last optimize call: what it compared and decided
  \* ---- augment_data(play_data)
  play_data,           \* the argument: a list of (state, mcts_prob, winner)
  extend_data,         \* the list being built and returned
  apos,                \* number of play_data steps the outer loop has consumed
  apc                  \* position in augment_data()

None == 0

cvars == <<files, cpc, cur_players, next_round_players, player1, pos, round,
           round_log, game_played, returned>>

rvars == <<tpc, i, win_ratio, net, episode_len>>

cfgvars == <<data_buffer, episode_records, loss_records, start_game_num,
             evaluate_opponent, pure_mcts_playout_num, best_win_pure_so_far,
             continuous_win_pure_times, policy_param,
             cur_best_alphazero_store_filename, lr_multiplier, learn_rate,
             kl_targ, min_mean_loss_every_check_freq, increase_mean_loss_times>>

hvars == <<ckpt_files, save_out, appended, seen_best, start0, processed>>

ovars == <<mini_batch, adjust_out>>

avars == <<play_data, extend_data, apos, apc>>

tvars == <<rvars, cfgvars, hvars, ovars>>

vars == <<cvars, tvars, avars>>

(* ---------------------------------------------------------------------- *)
(*                        ModelContest.py : contest                        *)
(* ---------------------------------------------------------------------- *)

\* a directory entry: a checkpoint that loads, a checkpoint whose load
\* raises, or a file whose name does not end with "pkl"
FileKinds == {"pkl", "badpkl", "other"}

RECURSIVE SeqsUpTo(_, _)
SeqsUpTo(S, n) ==
  IF n = 0 THEN {<<>>}
  ELSE LET shorter == SeqsUpTo(S, n - 1)
       IN  shorter \cup {Append(s, x) : s \in {t \in shorter : Len(t) = n - 1}, x \in S}

\* the indices of the entries whose name ends with "pkl", in listing order
RECURSIVE PklFrom(_, _)
PklFrom(fs, ix) ==
  IF ix > Len(fs) THEN <<>>
  ELSE IF fs[ix] \in {"pkl", "badpkl"} THEN <<ix>> \o PklFrom(fs, ix + 1)
       ELSE PklFrom(fs, ix + 1)

\* win_ratio = 1.0 * (win_cnt[1] + 0.5 * win_cnt[-1]) / n_games, times 2*n_games
WinRatio2N(wins, draws) == 2 * wins + draws

\* the tallies win_cnt can hold after n games: wins of player 1 and draws
Tallies(n) == {t \in (0..n) \X (0..n) : t[1] + t[2] <= n}

\* (a pairing that forgets its final else branch)
Advance_NoElse(p1, p2, wins, draws) ==
  IF WinRatio2N(wins, draws) > NGames THEN <<p1>>
  ELSE IF WinRatio2N(wins, draws) = NGames THEN <<p1, p2>>
  ELSE <<>>

\* lines 71-77: the players a pairing appends to next_round_players
Advance(p1, p2, wins, draws) ==
  IF WinRatio2N(wins, draws) > NGames THEN <<p1>>
  ELSE IF WinRatio2N(wins, draws) = NGames THEN <<p1, p2>>
  ELSE <<p2>>

\* the for loop's else clause: `if player1:` appends the pending player
ForElse(nrp, p1) == IF p1 # None THEN Append(nrp, p1) ELSE nrp

CStart ==
  /\ files \in SeqsUpTo(FileKinds, MaxFiles)
  /\ cpc = "load"
  /\ cur_players = <<>>
  /\ next_round_players = <<>>
  /\ player1 = None
  /\ pos = 0
  /\ round = 0
  /\ round_log = <<>>
  /\ game_played = FALSE
  /\ returned = None

\* (every load wrapped in a handler that skips the file)
LoadFails_Caught(fs) == FALSE

\* lines 42-44: load_current_best_player is called with no handler around it,
\* so the loop raises at the first *pkl entry whose load raises
LoadFails(fs) == \E f \in 1..Len(fs) : fs[f] = "badpkl"

\* lines 39-53: every *pkl entry is loaded in listing order; a load that
\* raises is not caught and ends contest()
LoadPlayers ==
  /\ cpc = "load"
  /\ IF LoadFails(files)
     THEN /\ cpc' = "load_error"
          /\ UNCHANGED cur_players
     ELSE /\ cpc' = "while"
          /\ cur_players' = PklFrom(files, 1)
  /\ UNCHANGED <<files, next_round_players, player1, pos, round, round_log,
                 game_played, returned,
                 tvars, avars>>

\* line 55: the while condition
WhileCond_AtLeastOne(players) == Len(players) >= 1

WhileCond(players) == Len(players) >= 2

\* lines 55-56: the while test succeeds and a round starts
RoundStart ==
  /\ cpc = "while"
  /\ WhileCond(cur_players)
  /\ cpc' = "for"
  /\ next_round_players' = <<>>
  /\ pos' = 0
  /\ round_log' = <<>>
  /\ UNCHANGED <<files, cur_players, player1, round, game_played, returned,
                 tvars, avars>>

\* lines 57-59: the loop variable becomes player1
TakePlayer1 ==
  /\ cpc = "for"
  /\ pos < Len(cur_players)
  /\ player1 = None
  /\ player1' = cur_players[pos + 1]
  /\ pos' = pos + 1
  /\ UNCHANGED <<files, cpc, cur_players, next_round_players, round, round_log,
                 game_played, returned,
                 tvars, avars>>

\* lines 60-78: the loop variable becomes player2 and the pairing is played
PlayMatch ==
  /\ cpc = "for"
  /\ pos < Len(cur_players)
  /\ player1 # None
  /\ \E t \in Tallies(NGames) :
       LET player2 == cur_players[pos + 1] IN
       /\ next_round_players' =
            next_round_players \o Advance(player1, player2, t[1], t[2])
       /\ round_log' = Append(round_log, <<player1, player2, t[1], t[2]>>)
  /\ game_played' = TRUE
  /\ player1' = None
  /\ pos' = pos + 1
  /\ UNCHANGED <<files, cpc, cur_players, round, returned,
                 tvars, avars>>

\* lines 79-83: the for loop is exhausted; its else clause, then the round ends
RoundEnd ==
  /\ cpc = "for"
  /\ pos = Len(cur_players)
  /\ cur_players' = ForElse(next_round_players, player1)
  /\ round' = IF round < MaxRound THEN round + 1 ELSE round
  /\ cpc' = "while"
  /\ UNCHANGED <<files, next_round_players, player1, pos, round_log,
                 game_played, returned,
                 tvars, avars>>

\* lines 84-85: the while test fails; cur_players[0] is logged and returned
Finish ==
  /\ cpc = "while"
  /\ ~WhileCond(cur_players)
  /\ IF Len(cur_players) = 0
     THEN /\ cpc' = "index_error"
          /\ UNCHANGED returned
     ELSE /\ cpc' = "done"
          /\ returned' = cur_players[1]
  /\ UNCHANGED <<files, cur_players, next_round_players, player1, pos, round,
                 round_log, game_played,
                 tvars, avars>>

(* ---------------------------------------------------------------------- *)
(*                       Train.py : TrainPipeline                          *)
(* ---------------------------------------------------------------------- *)

\* ---- values of Config (Config.py): scaled down for the model
BufferSize == 20                \* config.buffer_size, the deque's maxlen
BatchSize == 9                  \* config.batch_size
CheckFreq == 2                  \* config.check_freq
GameBatchNum == 4               \* config.game_batch_num
AdjustLrFreq == 2               \* config.adjust_lr_freq (is_adjust_lr is set)
AdjustLrIncreaseLossTimes == 1  \* config.adjust_lr_increase_loss_times
ChangeOpponentTimes == 2        \* config.change_opponent_continuous_times
PerGameOptTimes == 2            \* config.per_game_opt_times
\* ---- inputs
MaxEpisodeLen == 2              \* moves of one self-play game
EvalGames == 2                  \* games of one evaluation (evaluate's n_games)

\* ---- constants of Train.py
MaxPlayout == 5000
PlayoutStep == 1000
Rotations == 4
\* lr_multiplier is 1.5^e: it is > 0.1 iff e >= -5 and < 10 iff e <= 5
MinExpAboveFloor == -5
MaxExpBelowCeil == 5
\* ---- defaults of Config()
InitPlayout == 1000
\* config.win_ratio_alphazero = 0.55 = 11/20
WinRatioAlphaZeroNum == 11
WinRatioAlphaZeroDen == 20

\* win ratio 1.0, times 2*EvalGames
One == 2 * EvalGames
Ratios == 0..One

\* each step of a game becomes 4 rotations, each plain and mirrored
AugPerStep == 2 * Rotations

LossValues == {1, 2}
KLClasses == {"above_twice_targ", "between", "below_half_targ"}

ValueError == "ValueError"
NoMean == <<>>

\* win_ratio >= self.config.win_ratio_alphazero, for a ratio r / (2*EvalGames)
AtLeastWinRatioAlphaZero(r) ==
  r * WinRatioAlphaZeroDen >= WinRatioAlphaZeroNum * 2 * EvalGames

Max(a, b) == IF a >= b THEN a ELSE b

\* collections.deque(maxlen=n).append
DequeAppend(buf, x, maxlen) ==
  IF maxlen = 0 THEN <<>>
  ELSE IF Len(buf) >= maxlen THEN Append(Tail(buf), x)
  ELSE Append(buf, x)

\* collections.deque(maxlen=n).extend: append item by item
RECURSIVE DequeExtend(_, _, _)
DequeExtend(buf, items, maxlen) ==
  IF items = <<>> THEN buf
  ELSE DequeExtend(DequeAppend(buf, Head(items), maxlen), Tail(items), maxlen)

\* (the buffer kept as a plain list)
Extend_PlainList(buf, items) == buf \o items

\* line 52: self.config.data_buffer.extend(play_data)
Extend(buf, items) == DequeExtend(buf, items, BufferSize)

\* the augmented steps of a game: identified by their order of insertion
NewItems(sofar, cnt) == [k \in 1..cnt |-> sofar + k]

\* the file name of lines 171-178: the format string mixes automatic fields
\* ({}) with numbered ones ({0}), for which str.format raises ValueError
FilenameFormat(epochs, opponent, ratio) == ValueError

\* (promotion against the baseline on an equal ratio too)
PromotionCondition_GreaterEqual(r) ==
  \/ evaluate_opponent = "Pure" /\ r >= best_win_pure_so_far
  \/ evaluate_opponent = "Pure" /\ pure_mcts_playout_num = MaxPlayout /\ r = One
  \/ evaluate_opponent = "AlphaZero" /\ AtLeastWinRatioAlphaZero(r)

\* lines 163-166
PromotionCondition(r) ==
  \/ evaluate_opponent = "Pure" /\ r > best_win_pure_so_far
  \/ evaluate_opponent = "Pure" /\ pure_mcts_playout_num = MaxPlayout /\ r = One
  \/ evaluate_opponent = "AlphaZero" /\ AtLeastWinRatioAlphaZero(r)

\* lines 187-190: <<pure_mcts_playout_num, best_win_pure_so_far>> afterwards
Escalate(opp, playout, best, r) ==
  IF opp = "Pure" /\ r > best /\ r = One /\ playout < MaxPlayout
  THEN <<playout + PlayoutStep, 0>>
  ELSE <<playout, best>>

\* lines 193-195
CountPerfect(opp, playout, cnt, r) ==
  IF opp = "Pure" /\ playout >= MaxPlayout /\ r = One THEN cnt + 1 ELSE cnt

\* (the opponent recomputed from the counter on every call)
ChangeOpponent_Recomputed(opp, cnt) ==
  IF cnt >= ChangeOpponentTimes /\ opp = "Pure" THEN "AlphaZero" ELSE "Pure"

\* lines 198-201
ChangeOpponent(opp, cnt) ==
  IF opp = "Pure" /\ cnt >= ChangeOpponentTimes THEN "AlphaZero" ELSE opp

\* pickle.dump(self.config, ...): the aggregate as it is at line 179
Pickled(param, filename) ==
  [data_buffer |-> data_buffer,
   episode_records |-> episode_records,
   loss_records |-> loss_records,
   start_game_num |-> start_game_num,
   evaluate_opponent |-> evaluate_opponent,
   pure_mcts_playout_num |-> pure_mcts_playout_num,
   best_win_pure_so_far |-> best_win_pure_so_far,
   continuous_win_pure_times |-> continuous_win_pure_times,
   policy_param |-> param,
   cur_best_alphazero_store_filename |-> filename,
   lr_multiplier |-> lr_multiplier,
   learn_rate |-> learn_rate,
   kl_targ |-> kl_targ,
   min_mean_loss_every_check_freq |-> min_mean_loss_every_check_freq,
   increase_mean_loss_times |-> increase_mean_loss_times]

\* open(name, 'wb') and dump: the file is created or replaced
WriteFile(fs, name, cfg) ==
  {f \in fs : f.name # name} \cup {[name |-> name, cfg |-> cfg]}

FileNames(fs) == {f.name : f \in fs}

\* lines 158-201: save_model(win_ratio, epochs). An exception raised at the
\* file name leaves save_model before the dump and the opponent adjustment.
SaveModelEffect(r, e) ==
  LET promote == PromotionCondition(r)
      name    == FilenameFormat(e, evaluate_opponent, r)
      raised  == promote /\ name = ValueError
      esc     == Escalate(evaluate_opponent, pure_mcts_playout_num,
                          best_win_pure_so_far, r)
      cnt     == CountPerfect(evaluate_opponent, esc[1],
                              continuous_win_pure_times, r)
  IN  /\ policy_param' = IF promote THEN net ELSE policy_param
      /\ cur_best_alphazero_store_filename' =
           IF promote /\ ~raised THEN name ELSE cur_best_alphazero_store_filename
      /\ ckpt_files' =
           IF promote /\ ~raised
           THEN WriteFile(ckpt_files, name, Pickled(net, name))
           ELSE ckpt_files
      /\ IF raised
         THEN UNCHANGED <<pure_mcts_playout_num, best_win_pure_so_far,
                          continuous_win_pure_times, evaluate_opponent>>
         ELSE /\ pure_mcts_playout_num' = esc[1]
              /\ best_win_pure_so_far' = esc[2]
              /\ continuous_win_pure_times' = cnt
              /\ evaluate_opponent' = ChangeOpponent(evaluate_opponent, cnt)
      /\ save_out' = [win_ratio |-> r, epochs |-> e,
                      opponent |-> evaluate_opponent,
                      playout |-> pure_mcts_playout_num,
                      prior_best |-> seen_best,
                      promoted |-> promote,
                      outcome |-> IF raised THEN "value_error"
                                  ELSE IF promote THEN "written"
                                  ELSE "no_promotion"]
      /\ seen_best' = IF pure_mcts_playout_num' # pure_mcts_playout_num
                      THEN 0 ELSE Max(seen_best, r)

RECURSIVE SumSeq(_)
SumSeq(q) == IF q = <<>> THEN 0 ELSE Head(q) + SumSeq(Tail(q))

\* combined_loss_list[-check_freq:]
LastN(q, n) == IF Len(q) <= n THEN q ELSE SubSeq(q, Len(q) - n + 1, Len(q))

\* np.mean as <<sum, count>>; the mean of an empty list is nan
Mean(q) == <<SumSeq(q), Len(q)>>

\* (a mean equal to the minimum taken for a decrease)
MeanLess_OrEqual(a, b) == a[2] # 0 /\ b[2] # 0 /\ a[1] * b[2] <= b[1] * a[2]

\* a < b on means; any comparison with nan is False
MeanLess(a, b) == a[2] # 0 /\ b[2] # 0 /\ a[1] * b[2] < b[1] * a[2]

\* lines 210-224: <<min_mean_loss_every_check_freq, increase_mean_loss_times>>
\* after a check on the given loss records, and whether lines 225-226 run
CheckLoss(records, minmean, times) ==
  LET mean     == Mean(LastN(records, CheckFreq))
      improved == minmean = NoMean \/ MeanLess(mean, minmean)
      after    == IF improved THEN 0 ELSE times + 1
  IN  <<IF improved THEN mean ELSE minmean,
        after,
        after >= AdjustLrIncreaseLossTimes>>

\* lines 203-228: check_loss_change()
CheckLossChangeEffect ==
  LET c == CheckLoss(loss_records, min_mean_loss_every_check_freq,
                     increase_mean_loss_times)
  IN  /\ min_mean_loss_every_check_freq' = c[1]
      /\ increase_mean_loss_times' = c[2]
      /\ learn_rate' = IF c[3] THEN learn_rate + 1 ELSE learn_rate
      /\ kl_targ' = IF c[3] THEN kl_targ + 1 ELSE kl_targ

\* (the two branches exchanged)
AdjustLearningRate_Swapped(kl, mult) ==
  IF kl = "above_twice_targ" /\ mult <= MaxExpBelowCeil THEN mult + 1
  ELSE IF kl = "below_half_targ" /\ mult >= MinExpAboveFloor THEN mult - 1
  ELSE mult

\* (no test of the floor and the ceiling)
AdjustLearningRate_Unbounded(kl, mult) ==
  IF kl = "above_twice_targ" THEN mult - 1
  ELSE IF kl = "below_half_targ" THEN mult + 1
  ELSE mult

\* lines 83-86: the new lr_multiplier exponent for a KL in the given class
AdjustLearningRate(kl, mult) ==
  IF kl = "above_twice_targ" /\ mult >= MinExpAboveFloor THEN mult - 1
  ELSE IF kl = "below_half_targ" /\ mult <= MaxExpBelowCeil THEN mult + 1
  ELSE mult

\* the histories a config holds after k iterations of one-move games
HistoryItems(k) == Extend(<<>>, NewItems(0, AugPerStep * k))
HistoryLosses(k) ==
  LET n == Cardinality({j \in 1..k : Len(HistoryItems(j)) > BatchSize})
  IN  [j \in 1..n |-> 1]

\* <<min_mean_loss_every_check_freq, increase_mean_loss_times, number of
\* divisions of learn_rate and kl_targ>> after the checks of k iterations
RECURSIVE HistoryChecks(_)
HistoryChecks(k) ==
  IF k = 0 THEN <<NoMean, 0, 0>>
  ELSE LET prev == HistoryChecks(k - 1)
           c    == CheckLoss(HistoryLosses(k), prev[1], prev[2])
       IN  IF k % CheckFreq = 0
           THEN <<c[1], c[2], IF c[3] THEN prev[3] + 1 ELSE prev[3]>>
           ELSE prev

\* <<evaluate_opponent, pure_mcts_playout_num, continuous_win_pure_times>>
Curricula ==
  {<<"Pure", InitPlayout, 0>>,
   <<"Pure", MaxPlayout, 0>>,
   <<"Pure", MaxPlayout, ChangeOpponentTimes>>,
   <<"AlphaZero", MaxPlayout, ChangeOpponentTimes>>}

\* TrainPipeline(config): Config() is iteration 0 of the first curriculum;
\* the others are configs unpickled from --config (lines 269-272)
ConfiguredAt(k, c, e) ==
  /\ start_game_num = k
  /\ data_buffer = HistoryItems(k)
  /\ appended = AugPerStep * k
  /\ episode_records = [j \in 1..k |-> 1]
  /\ loss_records = HistoryLosses(k)
  /\ evaluate_opponent = c[1]
  /\ pure_mcts_playout_num = c[2]
  /\ continuous_win_pure_times = c[3]
  /\ best_win_pure_so_far = 0
  /\ policy_param = IF c[1] = "AlphaZero" THEN 1 ELSE None
  /\ cur_best_alphazero_store_filename =
       IF c[1] = "AlphaZero" THEN "resume.pkl" ELSE None
  /\ lr_multiplier = e
  /\ learn_rate = HistoryChecks(k)[3]
  /\ kl_targ = HistoryChecks(k)[3]
  /\ min_mean_loss_every_check_freq = HistoryChecks(k)[1]
  /\ increase_mean_loss_times = HistoryChecks(k)[2]
  /\ ckpt_files = IF c[1] = "AlphaZero"
                  THEN {[name |-> "resume.pkl", cfg |-> Pickled(1, "resume.pkl")]}
                  ELSE {}
  /\ tpc = "start"
  /\ i = 0
  /\ win_ratio = 0
  /\ net = 1
  /\ episode_len = 0
  /\ save_out = [win_ratio |-> 0, epochs |-> 0, opponent |-> c[1],
                 playout |-> c[2], prior_best |-> 0, promoted |-> FALSE,
                 outcome |-> "none"]
  /\ seen_best = 0
  /\ start0 = k
  /\ processed = <<>>
  /\ mini_batch = {}
  /\ adjust_out = [iteration |-> 0, adjusted |-> FALSE, kl |-> "none",
                   old_net |-> None, new_net |-> None, mult_before |-> e]

\* a config whose lr_multiplier is 1.0
Configured(k, c) == ConfiguredAt(k, c, 0)

TFresh == Configured(0, <<"Pure", InitPlayout, 0>>)

TInit == \E k \in 0..GameBatchNum, c \in Curricula : Configured(k, c)

\* the lr_multiplier a config unpickled from --config can hold on entry: a
\* power of 1.5 that earlier adjustments have left within [0.1, 10]
LrStarts == MinExpAboveFloor..MaxExpBelowCeil

\* TrainPipeline(config) on the first curriculum, whatever its lr_multiplier
TLrInit ==
  \E k \in 0..GameBatchNum, e \in LrStarts :
    ConfiguredAt(k, <<"Pure", InitPlayout, 0>>, e)

\* the contest is not running
CIdle ==
  /\ files = <<>>
  /\ cpc = "idle"
  /\ cur_players = <<>>
  /\ next_round_players = <<>>
  /\ player1 = None
  /\ pos = 0
  /\ round = 0
  /\ round_log = <<>>
  /\ game_played = FALSE
  /\ returned = None

\* augment_data is not running
AIdle ==
  /\ play_data = <<>>
  /\ extend_data = <<>>
  /\ apos = 0
  /\ apc = "idle"

\* the for statement of line 234: the next value of i, or the end of the loop
LoopHead(nexti) ==
  /\ tpc' = IF nexti < GameBatchNum THEN "self_play" ELSE "finished"
  /\ i' = IF nexti < GameBatchNum THEN nexti ELSE i

\* lines 232-234: run() enters its loop at config.start_game_num
RunStart ==
  /\ tpc = "start"
  /\ tpc' = IF start_game_num < GameBatchNum THEN "self_play" ELSE "finished"
  /\ i' = start_game_num
  /\ UNCHANGED <<win_ratio, net, episode_len, cfgvars, hvars, cvars, ovars, avars>>

\* line 236 (lines 38-52): self_play of one game (play_batch_size = 1)
SelfPlay ==
  /\ tpc = "self_play"
  /\ \E n \in 1..MaxEpisodeLen :
       /\ episode_len' = n
       /\ data_buffer' = Extend(data_buffer, NewItems(appended, AugPerStep * n))
       /\ appended' = appended + AugPerStep * n
  /\ processed' = Append(processed, i)
  /\ tpc' = "record"
  /\ UNCHANGED <<i, win_ratio, net, episode_records, loss_records,
                 start_game_num, evaluate_opponent, pure_mcts_playout_num,
                 best_win_pure_so_far, continuous_win_pure_times, policy_param,
                 cur_best_alphazero_store_filename, lr_multiplier, learn_rate,
                 kl_targ, min_mean_loss_every_check_freq,
                 increase_mean_loss_times, ckpt_files, save_out, seen_best,
                 start0, cvars, ovars, avars>>

\* lines 243-244: config.episode_records exists on a Config() and on the
\* unpickled config (where the global `config` of line 243 is self.config)
RecordEpisode ==
  /\ tpc = "record"
  /\ episode_records' = Append(episode_records, episode_len)
  /\ tpc' = "optimize"
  /\ UNCHANGED <<i, win_ratio, net, episode_len, data_buffer, loss_records,
                 start_game_num, evaluate_opponent, pure_mcts_playout_num,
                 best_win_pure_so_far, continuous_win_pure_times, policy_param,
                 cur_best_alphazero_store_filename, lr_multiplier, learn_rate,
                 kl_targ, min_mean_loss_every_check_freq,
                 increase_mean_loss_times, hvars, cvars, ovars, avars>>

\* (optimize called on every iteration)
WarmedUp_Always(buf) == TRUE

\* line 246: the test that guards optimize
WarmedUp(buf) == Len(buf) > BatchSize

\* the positions s, s+1, ..., s+k-1 of a buffer of n entries, cyclically
Window(s, n, k) == {((s - 1 + j) % n) + 1 : j \in 0..(k - 1)}

\* line 56: random.sample(data_buffer, batch_size) returns the entries at
\* batch_size distinct positions and leaves the buffer alone. Of the possible
\* position sets the model draws three: the oldest entries, the newest ones,
\* and a set that holds entries of both ends.
RandomSample(n, k) == {Window(s, n, k) : s \in {1, n - k + 1, n}}

\* lines 246-247, 56-57: the buffer test, then optimize(i + 1) draws its
\* mini-batch
Optimize ==
  /\ tpc = "optimize"
  /\ IF WarmedUp(data_buffer)
     THEN /\ mini_batch' \in RandomSample(Len(data_buffer), BatchSize)
          /\ tpc' = "fit"
     ELSE /\ mini_batch' = {}
          /\ tpc' = "counter"
  /\ UNCHANGED <<i, win_ratio, net, episode_len, cfgvars, hvars, adjust_out,
                 cvars, avars>>

\* lines 59-74, 76-92, 248: the predictions taken before the fits (when the
\* iteration adjusts), per_game_opt_times fits, adjust_learning_rate, and the
\* loss record appended by run()
Fit ==
  /\ tpc = "fit"
  /\ LET iteration == i + 1
         adjust    == iteration % AdjustLrFreq = 0
     IN  \E loss \in LossValues, kl \in (IF adjust THEN KLClasses ELSE {"none"}) :
           /\ net' = net + PerGameOptTimes
           /\ lr_multiplier' = IF adjust
                               THEN AdjustLearningRate(kl, lr_multiplier)
                               ELSE lr_multiplier
           /\ adjust_out' = [iteration |-> iteration,
                             adjusted |-> adjust,
                             kl |-> kl,
                             old_net |-> IF adjust THEN net ELSE None,
                             new_net |-> IF adjust THEN net + PerGameOptTimes
                                         ELSE None,
                             mult_before |-> lr_multiplier]
           /\ loss_records' = Append(loss_records, loss)
  /\ mini_batch' = {}
  /\ tpc' = "counter"
  /\ UNCHANGED <<i, win_ratio, episode_len, data_buffer, episode_records,
                 start_game_num, evaluate_opponent, pure_mcts_playout_num,
                 best_win_pure_so_far, continuous_win_pure_times, policy_param,
                 cur_best_alphazero_store_filename, learn_rate, kl_targ,
                 min_mean_loss_every_check_freq, increase_mean_loss_times,
                 hvars, cvars, avars>>

\* (the counter stored as the index of the iteration just run)
CounterAfter_SameIndex(iter) == iter

\* line 250: the value stored in config.start_game_num after iteration iter
CounterAfter(iter) == iter + 1

\* lines 250-253: the counter is stored; without a check the iteration ends
UpdateCounter ==
  /\ tpc = "counter"
  /\ start_game_num' = CounterAfter(i)
  /\ IF (i + 1) % CheckFreq = 0
     THEN tpc' = "evaluate" /\ UNCHANGED i
     ELSE LoopHead(i + 1)
  /\ UNCHANGED <<win_ratio, net, episode_len, data_buffer, episode_records,
                 loss_records, evaluate_opponent, pure_mcts_playout_num,
                 best_win_pure_so_far, continuous_win_pure_times, policy_param,
                 cur_best_alphazero_store_filename, lr_multiplier, learn_rate,
                 kl_targ, min_mean_loss_every_check_freq,
                 increase_mean_loss_times, hvars, cvars, ovars, avars>>

\* line 255 (lines 100-126): evaluate(); a learner opponent is loaded from
\* cur_best_alphazero_store_filename
Evaluate ==
  /\ tpc = "evaluate"
  /\ IF evaluate_opponent = "Pure"
        \/ cur_best_alphazero_store_filename \in FileNames(ckpt_files)
     THEN /\ \E t \in Tallies(EvalGames) : win_ratio' = WinRatio2N(t[1], t[2])
          /\ tpc' = "check_loss"
     ELSE /\ tpc' = "load_error"
          /\ UNCHANGED win_ratio
  /\ UNCHANGED <<i, net, episode_len, cfgvars, hvars, cvars, ovars, avars>>

\* line 256
CheckLossChange ==
  /\ tpc = "check_loss"
  /\ CheckLossChangeEffect
  /\ tpc' = "save_model"
  /\ UNCHANGED <<i, win_ratio, net, episode_len, data_buffer, episode_records,
                 loss_records, start_game_num, evaluate_opponent,
                 pure_mcts_playout_num, best_win_pure_so_far,
                 continuous_win_pure_times, policy_param,
                 cur_best_alphazero_store_filename, lr_multiplier, hvars, cvars, ovars, avars>>

\* line 257: save_model(win_ratio, i + 1); its ValueError is not caught by
\* run(), which only handles KeyboardInterrupt
SaveModel ==
  /\ tpc = "save_model"
  /\ SaveModelEffect(win_ratio, i + 1)
  /\ IF save_out'.outcome = "value_error"
     THEN tpc' = "value_error" /\ UNCHANGED i
     ELSE LoopHead(i + 1)
  /\ UNCHANGED <<win_ratio, net, episode_len, data_buffer, episode_records,
                 loss_records, start_game_num, lr_multiplier, learn_rate,
                 kl_targ, min_mean_loss_every_check_freq,
                 increase_mean_loss_times, appended, start0, processed, cvars, ovars, avars>>

InLoop == {"self_play", "record", "optimize", "fit", "counter", "evaluate",
           "check_loss", "save_model"}

\* lines 233, 259-260: KeyboardInterrupt, raised wherever the loop is
Interrupt ==
  /\ tpc \in InLoop
  /\ tpc' = "quit"
  /\ UNCHANGED <<i, win_ratio, net, episode_len, cfgvars, hvars, cvars, ovars, avars>>

\* save_model(win_ratio, epochs) called on the constructed pipeline
CallSaveModel ==
  /\ tpc = "start"
  /\ \E r \in Ratios, e \in 1..GameBatchNum : SaveModelEffect(r, e)
  /\ UNCHANGED <<rvars, data_buffer, episode_records, loss_records,
                 start_game_num, lr_multiplier, learn_rate, kl_targ,
                 min_mean_loss_every_check_freq, increase_mean_loss_times,
                 appended, start0, processed, cvars, ovars, avars>>

(* ------------------------ augment_data (lines 128-156) ----------------- *)

\* ---- values of Config and inputs, scaled down for the model
BoardN == 3                     \* config.board_width = config.board_height
MaxPlayData == 2                \* steps of the play_data handed to augment_data

Cells == 1..(BoardN * BoardN)

\* a plane or a probability grid is a sequence of rows, the top row first
\* np.rot90(m): one quarter turn counterclockwise
Rot90(m) ==
  [r \in 1..BoardN |-> [c \in 1..BoardN |-> m[c][BoardN + 1 - r]]]

\* np.rot90(m, k)
RECURSIVE Rot90K(_, _)
Rot90K(m, k) == IF k = 0 THEN m ELSE Rot90(Rot90K(m, k - 1))

\* np.flipud(m): the rows in reverse order
FlipUD(m) == [r \in 1..BoardN |-> m[BoardN + 1 - r]]

\* np.fliplr(m): every row reversed
FlipLR(m) == [r \in 1..BoardN |-> [c \in 1..BoardN |-> m[r][BoardN + 1 - c]]]

\* v.reshape(board_height, board_width), row-major
Reshape(v) ==
  [r \in 1..BoardN |-> [c \in 1..BoardN |-> v[(r - 1) * BoardN + c]]]

\* m.flatten(), row-major
Flatten(m) ==
  [k \in Cells |-> m[((k - 1) \div BoardN) + 1][((k - 1) % BoardN) + 1]]

\* (the grid flattened as it is, without turning it back upside down)
StoredProb_NoFlip(m) == Flatten(m)

\* lines 151, 155: np.flipud(equi_mcts_prob).flatten()
StoredProb(m) == Flatten(FlipUD(m))

\* lines 147-155: the two steps appended for the rotation k of one step
RotationPair(step, k) ==
  LET state      == step[1]
      mcts_porb  == step[2]
      winner     == step[3]
      equi_state == [p \in 1..Len(state) |-> Rot90K(state[p], k)]
      equi_prob  == Rot90K(FlipUD(Reshape(mcts_porb)), k)
      flip_state == [p \in 1..Len(state) |-> FlipLR(equi_state[p])]
      flip_prob  == FlipLR(equi_prob)
  IN  << <<equi_state, StoredProb(equi_prob), winner>>,
         <<flip_state, StoredProb(flip_prob), winner>> >>

\* line 145: for i in [1, 2, 3, 4]
RECURSIVE RotationsFrom(_, _)
RotationsFrom(step, k) ==
  IF k > Rotations THEN <<>>
  ELSE RotationPair(step, k) \o RotationsFrom(step, k + 1)

\* the state plane that marks cell c (cells numbered from the bottom row, as
\* in the comment of lines 136-139) and the flat vector with its 1.0 at c
PlaneOf(c) ==
  [r \in 1..BoardN |->
     [col \in 1..BoardN |-> IF (BoardN - r) * BoardN + col = c THEN 1 ELSE 0]]

OneHot(c) == [k \in Cells |-> IF k = c THEN 1 ELSE 0]

\* a step of a game: (state, mcts_prob, winner) with the move at cell c
StepAt(c, w) == << <<PlaneOf(c)>>, OneHot(c), w >>

\* the steps of a self-play game: every move is on a cell of its own, and the
\* winner is seen from the player to move, so its sign alternates
GameData ==
  {q \in SeqsUpTo({StepAt(c, w) : c \in Cells, w \in {1, -1}}, MaxPlayData) :
     /\ Len(q) >= 1
     /\ \A j, k \in 1..Len(q) : j # k => q[j][2] # q[k][2]
     /\ \A j \in 1..(Len(q) - 1) : q[j + 1][3] = -q[j][3]}

AStart ==
  /\ play_data \in GameData
  /\ extend_data = <<>>
  /\ apos = 0
  /\ apc = "loop"

\* lines 133-155: one pass of the outer loop
AugmentStep ==
  /\ apc = "loop"
  /\ apos < Len(play_data)
  /\ extend_data' = extend_data \o RotationsFrom(play_data[apos + 1], 1)
  /\ apos' = apos + 1
  /\ UNCHANGED <<play_data, apc, cvars, tvars>>

\* line 156: return extend_data
AugmentReturn ==
  /\ apc = "loop"
  /\ apos = Len(play_data)
  /\ apc' = "returned"
  /\ UNCHANGED <<play_data, extend_data, apos, cvars, tvars>>

(* --------------------------- specifications --------------------------- *)

CInit == CStart /\ TFresh /\ AIdle

ContestNext ==
  \/ LoadPlayers
  \/ RoundStart
  \/ TakePlayer1
  \/ PlayMatch
  \/ RoundEnd
  \/ Finish

\* contest(directory_name, n_games)
ContestSpec == CInit /\ [][ContestNext]_vars

\* contest() is one sequential function: a step that can be taken is taken
ContestFairSpec == ContestSpec /\ WF_vars(ContestNext)

RunInit == CIdle /\ TInit /\ AIdle

RunNext ==
  \/ RunStart
  \/ SelfPlay
  \/ RecordEpisode
  \/ Optimize
  \/ Fit
  \/ UpdateCounter
  \/ Evaluate
  \/ CheckLossChange
  \/ SaveModel
  \/ Interrupt

\* TrainPipeline(config).run()
RunSpec == RunInit /\ [][RunNext]_vars

\* TrainPipeline(config) and calls of save_model on it
SaveModelSpec == RunInit /\ [][CallSaveModel]_vars

FreshInit == CIdle /\ TFresh /\ AIdle

\* TrainPipeline(Config()): run(), or calls of save_model, on a fresh config
FreshSpec == FreshInit /\ [][RunNext \/ CallSaveModel]_vars

LrInit == CIdle /\ TLrInit /\ AIdle

\* TrainPipeline(config).run() from any lr_multiplier within [0.1, 10]
LrSpec == LrInit /\ [][RunNext]_vars

AugmentInit == CIdle /\ TFresh /\ AStart

AugmentNext == AugmentStep \/ AugmentReturn

\* augment_data(play_data)
AugmentSpec == AugmentInit /\ [][AugmentNext]_vars

(* ---------------------------------------------------------------------- *)
(*                     properties of the tournament judge                  *)
(* ---------------------------------------------------------------------- *)

\* the players loaded from the directory, in listing order
Pool == PklFrom(files, 1)

NoBadFile == \A f \in 1..Len(files) : files[f] # "badpkl"

InSeq(x, s) == \E ix \in 1..Len(s) : s[ix] = x

ContestEnded == cpc \in {"done", "index_error", "load_error", "config_error"}

\* C1 (as claimed): from every pool of at least 2 loaded checkpoints, whatever
\* the match outcomes, contest() eventually finishes (with one checkpoint left).
C1_Terminates ==
  (cpc = "while" /\ round = 0 /\ Len(cur_players) >= 2)
     ~> (cpc = "done" /\ Len(cur_players) = 1)

\* C1 (amended): contest() on a pool of at least 2 loaded checkpoints need not
\* finish; whenever it leaves the loop, exactly one checkpoint remains (never
\* none), and the file it returns is that checkpoint, a member of the pool.
C1_ExactlyOneAtExit ==
  (cpc \in {"done", "index_error"} /\ NoBadFile /\ Len(Pool) >= 2)
     => /\ cpc = "done"
        /\ Len(cur_players) = 1
        /\ returned = cur_players[1]
        /\ InSeq(returned, Pool)

\* C1 witness: a pool of 3 was reduced to one winner in at least 2 rounds
C1_Witness ==
  cpc = "done" /\ Len(Pool) = 3 /\ round >= 2 /\ InSeq(returned, Pool)

\* the next round the claimed pairing rule gives: pairs (1st,2nd), (3rd,4th), ...
\* of `cur` with the tallies logged for them, then the unpaired last player
RECURSIVE ExpectedNext(_, _, _)
ExpectedNext(cur, log, k) ==
  IF 2 * k <= Len(cur)
  THEN Advance(cur[2 * k - 1], cur[2 * k], log[k][3], log[k][4])
         \o ExpectedNext(cur, log, k + 1)
  ELSE IF 2 * k - 1 = Len(cur) THEN <<cur[Len(cur)]>> ELSE <<>>

PairedInOrder(cur, log) ==
  /\ Len(log) = Len(cur) \div 2
  /\ \A k \in 1..Len(log) : log[k][1] = cur[2 * k - 1] /\ log[k][2] = cur[2 * k]

\* C2: when a round ends, the pairings played were (1st,2nd), (3rd,4th), ... of
\* the round's players, and the next round holds exactly the players the win
\* ratio rule advances from them, plus an unpaired last player, in that order.
C2_RoundComposition ==
  [][(cpc = "for" /\ cpc' = "while")
       => /\ PairedInOrder(cur_players, round_log)
          /\ cur_players' = ExpectedNext(cur_players, round_log, 1)]_vars

\* C10 (as claimed): with fewer than 2 loaded participants contest() ends in a
\* configuration error, before any game, and returns no winner.
C10_ConfigError ==
  (NoBadFile /\ Len(Pool) < 2 /\ ContestEnded)
     => (cpc = "config_error" /\ returned = None /\ ~game_played)

\* C10 (amended): with fewer than 2 loaded participants no round is started and
\* no game is played; with exactly 1, contest() returns that checkpoint as the
\* winner; with 0 it fails at the final cur_players[0] with an IndexError.
C10_TooSmallPool ==
  (NoBadFile /\ Len(Pool) < 2)
     => /\ cpc \in {"load", "while", "done", "index_error"}
        /\ ~game_played
        /\ cpc = "done" => (Len(Pool) = 1 /\ returned = Pool[1])
        /\ cpc = "index_error" => (Len(Pool) = 0 /\ returned = None)

\* C10 witness: a directory with one checkpoint among other files: it is returned
C10_Witness ==
  cpc = "done" /\ Len(Pool) = 1 /\ Len(files) >= 2 /\ returned = Pool[1]

\* the entries whose load succeeds, in listing order
RECURSIVE ValidFrom(_, _)
ValidFrom(fs, ix) ==
  IF ix > Len(fs) THEN <<>>
  ELSE IF fs[ix] = "pkl" THEN <<ix>> \o ValidFrom(fs, ix + 1)
       ELSE ValidFrom(fs, ix + 1)

\* C11 (as claimed): a checkpoint file whose load fails is skipped and loading
\* continues: with at least 2 valid checkpoints the tournament proceeds with
\* exactly the valid ones and is never aborted by the failing file; with fewer
\* it ends in a configuration error.
C11_BadFilesSkipped ==
  (~NoBadFile /\ cpc # "load")
     => /\ cpc # "load_error"
        /\ Len(ValidFrom(files, 1)) >= 2
             => (round = 0 /\ cpc = "while" => cur_players = ValidFrom(files, 1))
        /\ (Len(ValidFrom(files, 1)) < 2 /\ ContestEnded) => cpc = "config_error"

\* C11 (amended): a checkpoint file whose load fails is not skipped: the
\* load's exception ends contest() during pool loading, however many valid
\* checkpoints the directory holds; no round starts, no game is played and
\* nothing is returned. Only files not named *pkl are passed over.
C11_BadFileAborts ==
  ~NoBadFile
     => /\ cpc \in {"load", "load_error"}
        /\ cur_players = <<>>
        /\ round = 0
        /\ ~game_played
        /\ returned = None

\* C11 witness: two valid checkpoints and one failing file: contest() has
\* ended in the load's exception
C11_Witness ==
  /\ cpc = "load_error"
  /\ Len(ValidFrom(files, 1)) = 2
  /\ Len(Pool) = 3

(* ---------------------------------------------------------------------- *)
(*                        properties of augment_data                       *)
(* ---------------------------------------------------------------------- *)

\* the cells a state plane marks, and the indices where a vector holds 1.0
MarkedByPlane(m) ==
  {(BoardN - rc[1]) * BoardN + rc[2] :
     rc \in {x \in (1..BoardN) \X (1..BoardN) : m[x[1]][x[2]] = 1}}

MarkedByProb(v) == {k \in Cells : v[k] = 1}

\* the steps returned for the k-th input step
OutputOf(k) == SubSeq(extend_data, AugPerStep * (k - 1) + 1, AugPerStep * k)

\* C13: for every input step whose plane marks cell c and whose probability
\* vector has its single 1.0 at c, augment_data returns exactly 8 steps, one
\* of them equal to the input, each with the winner unchanged, and in each the
\* vector's single 1.0 is at the cell the transformed plane marks.
C13_ProbStateAligned ==
  apc = "returned"
     => /\ Len(extend_data) = 8 * Len(play_data)
        /\ \A k \in 1..Len(play_data) :
             /\ \E j \in 1..8 : OutputOf(k)[j] = play_data[k]
             /\ \A j \in 1..8 :
                  LET out == OutputOf(k)[j] IN
                  /\ out[3] = play_data[k][3]
                  /\ Cardinality(MarkedByProb(out[2])) = 1
                  /\ MarkedByProb(out[2]) = MarkedByPlane(out[1][1])

\* C13 witness: a corner move was augmented: its 8 images mark all 4 corners
C13_Witness ==
  /\ apc = "returned"
  /\ play_data[1][2][1] = 1
  /\ {c \in Cells : \E j \in 1..Len(extend_data) : extend_data[j][2][c] = 1}
       = {1, BoardN, BoardN * BoardN - BoardN + 1, BoardN * BoardN}

(* ---------------------------------------------------------------------- *)
(*                   properties of the training pipeline                   *)
(* ---------------------------------------------------------------------- *)

\* a step of run() that is the whole save_model call (not an interrupt)
SaveModelStep == tpc = "save_model" /\ tpc' \in {"self_play", "finished", "value_error"}

\* C3: against the rollout baseline at a fixed strength, a save_model call
\* enters the promotion block exactly when its win ratio is strictly higher
\* than the highest win ratio of the earlier evaluations at that strength.
C3_PromotionMonotone ==
  (save_out.outcome # "none" /\ save_out.opponent = "Pure")
     => (save_out.promoted <=> save_out.win_ratio > save_out.prior_best)

\* C4: save_model writes a checkpoint exactly when (a) the opponent is the
\* baseline and win_ratio > best_win_pure_so_far, or (b) the baseline is at
\* strength 5000 and win_ratio is 1.0, or (c) the opponent is a learner and
\* win_ratio >= win_ratio_alphazero; otherwise nothing is written and
\* policy_param and cur_best_alphazero_store_filename are unchanged.
C4_WritesExactlyOnPromotion ==
  [][SaveModelStep =>
       LET cond == \/ evaluate_opponent = "Pure"
                      /\ win_ratio > best_win_pure_so_far
                   \/ evaluate_opponent = "Pure"
                      /\ pure_mcts_playout_num = 5000 /\ win_ratio = One
                   \/ evaluate_opponent = "AlphaZero"
                      /\ AtLeastWinRatioAlphaZero(win_ratio)
       IN  /\ cond <=> (ckpt_files' # ckpt_files)
           /\ ~cond => UNCHANGED <<policy_param,
                                   cur_best_alphazero_store_filename>>]_vars

\* the file name the claim gives for a promotion at iteration e against
\* opponent opp with win ratio r (the board geometry is fixed)
ClaimedFilename(e, opp, r) == <<"epochs", e, "opponent", opp, "win", r>>

\* C12: whenever the promotion condition holds, save_model writes the full
\* config to the file named by the claimed function of iteration, opponent and
\* win ratio, records that name in cur_best_alphazero_store_filename, and goes
\* on to the curriculum adjustment without raising.
C12_PromotionWritesCheckpoint ==
  [][(SaveModelStep /\ PromotionCondition(win_ratio)) =>
       /\ tpc' # "value_error"
       /\ cur_best_alphazero_store_filename'
            = ClaimedFilename(i + 1, evaluate_opponent, win_ratio)
       /\ \E f \in ckpt_files' :
            /\ f.name = cur_best_alphazero_store_filename'
            /\ f.cfg.policy_param = net
            /\ f.cfg.data_buffer = data_buffer]_vars

\* the iterations run() has completed since it was entered
Completed == start_game_num - start0

\* C5 (as claimed): after a KeyboardInterrupt the config holds whole
\* iterations only: every iteration whose self-play data or episode record is
\* in it also has its counter update in it.
C5_WholeIterations ==
  tpc = "quit"
     => /\ Len(processed) = Completed
        /\ Len(episode_records) = start0 + Completed

\* C5 (amended): run() catches the interrupt and ends, but mid-iteration: the
\* config then holds the completed iterations and, in program order, a prefix
\* of the interrupted one (self-play data, then its episode record, then its
\* counter update), never more than one iteration ahead of the counter.
C5_InterruptLeavesPrefix ==
  tpc = "quit"
     => /\ Completed <= Len(episode_records) - start0
        /\ Len(episode_records) - start0 <= Len(processed)
        /\ Len(processed) <= Completed + 1
        /\ ~ENABLED RunNext

\* C5 witness: interrupted after self-play and before the counter update:
\* the buffer holds the data of an iteration the counter does not count
C5_Witness ==
  /\ tpc = "quit"
  /\ Len(processed) = Completed + 1
  /\ Len(episode_records) = start0 + Completed
  /\ appended > AugPerStep * start0

\* C6: when save_model promotes at iteration k, the checkpoint it names holds
\* start_game_num = k and the buffer, loss history and curriculum state the
\* running controller has at the end of that iteration.
C6_CheckpointResumesExactly ==
  [][(SaveModelStep /\ save_out'.promoted) =>
       \E f \in ckpt_files' :
         /\ f.name = cur_best_alphazero_store_filename'
         /\ f.cfg.start_game_num = i + 1
         /\ f.cfg.data_buffer = data_buffer'
         /\ f.cfg.loss_records = loss_records'
         /\ f.cfg.evaluate_opponent = evaluate_opponent'
         /\ f.cfg.pure_mcts_playout_num = pure_mcts_playout_num'
         /\ f.cfg.best_win_pure_so_far = best_win_pure_so_far'
         /\ f.cfg.continuous_win_pure_times = continuous_win_pure_times']_vars

\* the indices lo, lo+1, ..., hi-1 in increasing order
RangeSeq(lo, hi) == [k \in 1..Max(hi - lo, 0) |-> lo + k - 1]

\* C7: the counter equals i+1 once iteration i has stored it, and a run that
\* stops without being interrupted has processed start0, ..., game_batch_num-1,
\* each once and in increasing order.
C7_AllIterationsOnce ==
  /\ tpc \in {"evaluate", "check_loss", "save_model"} => start_game_num = i + 1
  /\ tpc \in {"finished", "value_error", "load_error"}
       => processed = RangeSeq(start0, GameBatchNum)

\* C8: once evaluate_opponent is 'AlphaZero' no step sets it back to 'Pure' or
\* changes the baseline strength, the best-ratio tracker or the perfect-win
\* counter.
C8_GraduationOneWay ==
  [][evaluate_opponent = "AlphaZero"
       => /\ evaluate_opponent' = "AlphaZero"
          /\ UNCHANGED <<pure_mcts_playout_num, best_win_pure_so_far,
                         continuous_win_pure_times>>]_vars

\* C8 witness: with a learner opponent, save_model has run (without promoting)
\* and the run went on
C8_Witness ==
  /\ evaluate_opponent = "AlphaZero"
  /\ save_out.opponent = "AlphaZero"
  /\ save_out.outcome = "no_promotion"
  /\ tpc = "record"

\* C9: the replay buffer never exceeds its capacity and always holds the most
\* recently appended steps, in insertion order.
C9_BufferBoundedFifo ==
  LET m == IF appended < BufferSize THEN appended ELSE BufferSize
  IN  /\ Len(data_buffer) <= BufferSize
      /\ data_buffer = [k \in 1..m |-> appended - m + k]

\* a step of run() that is the fits of optimize and what follows them
FitStep == tpc = "fit" /\ tpc' = "counter"

\* C14: when the rule is applied, KL > 2*kl_targ divides lr_multiplier by 1.5
\* if it is above 0.1 and leaves it if not, KL < kl_targ/2 multiplies it by
\* 1.5 if it is below 10, and every other case leaves it; the rule is applied
\* only by optimize on iterations that are multiples of adjust_lr_freq, and it
\* compares the predictions of the net before the first fit of the iteration
\* with those after the last.
C14_KLMultiplierRule ==
  [][/\ ~FitStep => lr_multiplier' = lr_multiplier
     /\ FitStep =>
          LET applied == (i + 1) % AdjustLrFreq = 0
              kl      == adjust_out'.kl
              above   == kl = "above_twice_targ"
              below   == kl = "below_half_targ"
              over01  == lr_multiplier >= MinExpAboveFloor
              under10 == lr_multiplier <= MaxExpBelowCeil
          IN  /\ adjust_out'.adjusted <=> applied
              /\ ~applied => lr_multiplier' = lr_multiplier
              /\ applied =>
                   /\ (above /\ over01) => lr_multiplier' = lr_multiplier - 1
                   /\ (above /\ ~over01) => lr_multiplier' = lr_multiplier
                   /\ (below /\ under10) => lr_multiplier' = lr_multiplier + 1
                   /\ ~(above \/ (below /\ under10))
                        => lr_multiplier' = lr_multiplier
                   /\ adjust_out'.old_net = net
                   /\ adjust_out'.new_net = net + PerGameOptTimes
                   /\ net' = adjust_out'.new_net]_vars

\* C14 witness: KL was above twice the target with the multiplier already at
\* or below 0.1: the rule was applied and left it unchanged
C14_Witness ==
  /\ tpc = "counter"
  /\ adjust_out.adjusted
  /\ adjust_out.kl = "above_twice_targ"
  /\ adjust_out.mult_before < MinExpAboveFloor
  /\ lr_multiplier = adjust_out.mult_before

\* C19: from any lr_multiplier in [0.1, 10], lr_multiplier stays above 0.1/1.5
\* and below 10*1.5 (as powers of 1.5: from 1.5^-6 to 1.5^6), a step changes
\* it by at most one factor of 1.5, and only the optimize step changes it.
C19_MultiplierBounded ==
  [][/\ lr_multiplier' >= MinExpAboveFloor - 1
     /\ lr_multiplier' <= MaxExpBelowCeil + 1
     /\ lr_multiplier' - lr_multiplier \in {-1, 0, 1}
     /\ lr_multiplier' # lr_multiplier => FitStep]_vars

\* C19 witness: the multiplier went one factor above 10, a further low KL left
\* it there, and the run went through check_loss_change and save_model
C19_Witness ==
  /\ lr_multiplier = MaxExpBelowCeil + 1
  /\ adjust_out.kl = "below_half_targ"
  /\ adjust_out.mult_before = MaxExpBelowCeil + 1
  /\ save_out.outcome = "no_promotion"
  /\ tpc = "finished"

\* C15: the perfect-win counter counts the consecutive evaluations with win
\* ratio 1.0 played against the baseline already at strength 5000 (any other
\* evaluation against the baseline breaks the sequence and is not counted),
\* and the opponent becomes the prior learner only at a call where this
\* counter has reached change_opponent_continuous_times.
C15_GraduationPrecondition ==
  [][(SaveModelStep /\ evaluate_opponent = "Pure") =>
       LET counted == win_ratio = One /\ pure_mcts_playout_num = MaxPlayout
       IN  /\ continuous_win_pure_times' =
                IF counted THEN continuous_win_pure_times + 1 ELSE 0
           /\ evaluate_opponent' = "AlphaZero"
                => (counted /\ continuous_win_pure_times' >= ChangeOpponentTimes)]_vars

\* C16: a save_model call that finds the baseline beaten with a new best ratio
\* raises its strength by 1000 and resets best_win_pure_so_far to 0.0 if the
\* strength is below 5000, and leaves the strength if it is 5000; no call
\* lowers the strength.
C16_Escalation ==
  [][SaveModelStep =>
       /\ (evaluate_opponent = "Pure" /\ win_ratio > best_win_pure_so_far)
            => IF pure_mcts_playout_num < MaxPlayout
               THEN /\ pure_mcts_playout_num' = pure_mcts_playout_num + PlayoutStep
                    /\ best_win_pure_so_far' = 0
               ELSE pure_mcts_playout_num' = pure_mcts_playout_num
       /\ pure_mcts_playout_num' >= pure_mcts_playout_num]_vars

\* a step of run() that is the whole check_loss_change call
CheckLossStep == tpc = "check_loss" /\ tpc' = "save_model"

OptimizeStep == tpc = "optimize" /\ tpc' \in {"fit", "counter"}

IsPrefix(a, b) == Len(a) <= Len(b) /\ \A k \in 1..Len(a) : a[k] = b[k]

\* C18: in an iteration optimize runs iff the buffer after self-play is longer
\* than batch_size; it then samples batch_size distinct buffer positions,
\* removes nothing and one loss record is appended; skipped, nothing is raised,
\* no loss record is appended and the counter still advances; loss records
\* already present are never changed or removed.
C18_WarmUp ==
  [][/\ OptimizeStep =>
          /\ tpc' = "fit" <=> Len(data_buffer) > BatchSize
          /\ tpc' = "fit" => /\ mini_batch' \subseteq 1..Len(data_buffer)
                             /\ Cardinality(mini_batch') = BatchSize
          /\ UNCHANGED <<data_buffer, loss_records>>
     /\ FitStep => /\ Len(loss_records') = Len(loss_records) + 1
                   /\ data_buffer' = data_buffer
     /\ (tpc = "counter" /\ tpc' # "quit")
          => /\ start_game_num' = i + 1
             /\ adjust_out.iteration = i + 1 <=> Len(data_buffer) > BatchSize
     /\ ~FitStep => loss_records' = loss_records
     /\ IsPrefix(loss_records, loss_records')]_vars

\* C18 witness: the first iteration left the buffer no longer than batch_size:
\* optimize was skipped, no loss record exists and the counter advanced
C18_Witness ==
  /\ tpc = "self_play"
  /\ start0 = 0
  /\ start_game_num = 1
  /\ Len(data_buffer) > 0
  /\ Len(data_buffer) <= BatchSize
  /\ loss_records = <<>>

\* C20: from a fresh config, whenever evaluate_opponent is 'AlphaZero' a
\* promotion has written a checkpoint and cur_best_alphazero_store_filename
\* names it, so evaluate() never fails to load its learner opponent.
C20_LearnerHasCheckpoint ==
  /\ evaluate_opponent = "AlphaZero"
       => /\ cur_best_alphazero_store_filename # None
          /\ cur_best_alphazero_store_filename \in FileNames(ckpt_files)
  /\ tpc # "load_error"

\* from a fresh config no call of save_model reaches lines 187-201 with a win
\* ratio of 1.0, so the opponent stays the rollout baseline and no state has
\* the case C20 is about
C20_FreshNeverGraduates ==
  /\ evaluate_opponent = "Pure"
  /\ continuous_win_pure_times = 0
  /\ pure_mcts_playout_num = InitPlayout
  /\ ckpt_files = {}

\* C9 witness: more steps were appended than fit: the oldest are gone
C9_Witness ==
  /\ appended > BufferSize
  /\ Len(data_buffer) = BufferSize
  /\ data_buffer[1] > 1
  /\ tpc = "record"

====
